---- MODULE Spec2Model ----
(***************************************************************************)
(* Model of the OCR upload service (src/main.py): the coroutine            *)
(* ocr_endpoint, one instance per request, run by a cooperative event      *)
(* loop, and perform_ocr_sync, run in a worker thread by                   *)
(* asyncio.to_thread.  An action of a request is the code the coroutine    *)
(* executes between two suspension points (await); the worker thread's     *)
(* run of perform_ocr_sync is an action of its own.                        *)
(***************************************************************************)
EXTENDS Integers, Sequences, FiniteSets, TLC

\* Number of requests the transport delivers.
NReq == 2
\* Largest number of non-empty chunks an upload stream delivers.
MaxChunks == 2

Requests == 1..NReq
NoReq == 0

\* Names the temporary-file facility can hand out; NoPath is "no name".
Paths == 1..NReq
NoPath == 0

\* The k-th chunk image.read() returns to request r: the bytes are the
\* request's own.  The first chunk of an upload holds the image header and
\* no glyph.
Chunk(r, k) == <<r, k>>
HasGlyph(c) == c[2] > 1

----------------------------------------------------------------------------
(* Strings.  A content type is a sequence of characters; an absent one    *)
(* (None) has present = FALSE.                                            *)

CT(present, value) == [present |-> present, value |-> value]
ImagePrefix == <<"i", "m", "a", "g", "e", "/">>
ContentTypes ==
    { CT(FALSE, <<>>),
      CT(TRUE, <<>>),
      CT(TRUE, <<"t", "e", "x", "t", "/", "p", "l", "a", "i", "n">>),
      CT(TRUE, <<"i", "m", "a", "g", "e">>),
      CT(TRUE, <<"i", "m", "a", "g", "e", "/", "p", "n", "g">>) }

\* str.startswith
startswith(s, prefix) ==
    /\ Len(s) >= Len(prefix)
    /\ SubSeq(s, 1, Len(prefix)) = prefix

\* A validator that compares with "image", without the slash.
ValidContentType_NoSlash(ct) ==
    ct.present /\ startswith(ct.value, <<"i", "m", "a", "g", "e">>)

\* The condition of line 44 negated: the upload passes validation.
ValidContentType(ct) ==
    ~ (~ (ct.present /\ ct.value # <<>>) \/ ~ startswith(ct.value, ImagePrefix))

(* A message (exception text or response detail): its fixed text, the     *)
(* file paths it spells out, and the exception texts interpolated in it.  *)
Msg(text, paths, embeds) == [text |-> text, paths |-> paths, embeds |-> embeds]
NoMsg == Msg("", {}, {})

\* f"{prefix}{e}": the text of e becomes part of the message.
Interpolate(prefix, e) == Msg(prefix, e.paths, {e.text} \cup e.embeds)

InvalidTypeDetail == Msg("Invalid file type. Please upload an image.", {}, {})
NotConfiguredText == "Tesseract OCR engine is not configured correctly."
OcrFailedPrefix == "OCR processing failed: "
UnexpectedDetail ==
    Msg("An unexpected error occurred during file processing.", {}, {})

----------------------------------------------------------------------------
(* The OCR engine and perform_ocr_sync.                                    *)

\* Text the engine extracts from the bytes of a file: its glyphs, in order.
Recognize(content) == SelectSeq(content, HasGlyph)

\* What pytesseract.image_to_string can do when given path p: the engine
\* is missing, it fails with a message that names its input file, or (when
\* the file is there) it returns the text of the file's bytes.
EngineOutcomes(p, fs) ==
    { [kind |-> "TesseractNotFoundError", text |-> <<>>,
       msg |-> Msg("tesseract is not installed or it's not in your PATH", {}, {})],
      [kind |-> "Exception", text |-> <<>>,
       msg |-> Msg("Error opening input file", {p}, {})] }
    \cup IF fs[p].exists
         THEN { [kind |-> "return", text |-> Recognize(fs[p].data), msg |-> NoMsg] }
         ELSE {}

NoOutcome == [kind |-> "none", text |-> <<>>, msg |-> NoMsg]

\* Result of a call: a returned text, or a raised exception with str(e).
Returned(text) == [raised |-> "none", text |-> text, msg |-> NoMsg]
Raised(exc, msg) == [raised |-> exc, text |-> <<>>, msg |-> msg]
NoResult == [raised |-> "pending", text |-> <<>>, msg |-> NoMsg]

\* Line 32: the RuntimeError raised for a missing engine.
NotFoundError(e) == Raised("RuntimeError", Msg(NotConfiguredText, {}, {}))
\* Line 35: the RuntimeError raised for any other engine failure.
ProcessingError(e) ==
    Raised("RuntimeError", Interpolate(OcrFailedPrefix, e))

perform_ocr_sync(out) ==
    CASE out.kind = "return" -> Returned(out.text)
      [] out.kind = "TesseractNotFoundError" -> NotFoundError(out.msg)
      [] OTHER -> ProcessingError(out.msg)

----------------------------------------------------------------------------
(* Responses.                                                              *)

NoResp == [status |-> 0, kind |-> "none", detail |-> NoMsg, raw_text |-> <<>>]
\* raise HTTPException(status_code, detail)
HTTPException(status, detail) ==
    [status |-> status, kind |-> "HTTPException", detail |-> detail, raw_text |-> <<>>]
\* return {"raw_text_from_img": raw_text}
Payload(raw_text) ==
    [status |-> 200, kind |-> "payload", detail |-> NoMsg, raw_text |-> raw_text]
\* An exception that leaves ocr_endpoint without being an HTTPException:
\* the framework answers with its own 500.
Unhandled(exc) ==
    [status |-> 500, kind |-> "unhandled", detail |-> Msg(exc, {}, {}), raw_text |-> <<>>]

\* asyncio.CancelledError derives from BaseException: it leaves ocr_endpoint
\* past every except clause and no response is produced.
Cancelled ==
    [status |-> 0, kind |-> "cancelled", detail |-> NoMsg, raw_text |-> <<>>]

VARIABLES
    pc,         \* where each request's coroutine is suspended (lines 39-81)
    ctype,      \* image.content_type of each request (line 44)
    sent,       \* chunks image.read() has returned to each request (line 53)
    tmpname,    \* tmp.name: the file NamedTemporaryFile created (line 50),
                \* NoPath before the with block and after the coroutine ends
    buf,        \* bytes written to tmp and not yet flushed (lines 54, 57)
    filepath,   \* the local variable filepath, NoPath while unbound (line 60)
    files,      \* storage: for each path, whether a file exists there, the
                \* request that created it, and its bytes
    ocr,        \* the worker thread's call of perform_ocr_sync (line 61):
                \* its state, the path it was given (while it runs), what the
                \* engine did, what the call returned or raised
    resp,       \* the response sent for each request
    log         \* the steps each request has executed, in order

vars == <<pc, ctype, sent, tmpname, buf, filepath, files, ocr, resp, log>>

NoFile == [exists |-> FALSE, owner |-> NoReq, data |-> <<>>]

Init ==
    /\ pc = [r \in Requests |-> "received"]
    /\ ctype = [r \in Requests |-> CT(FALSE, <<>>)]
    /\ sent = [r \in Requests |-> <<>>]
    /\ tmpname = [r \in Requests |-> NoPath]
    /\ buf = [r \in Requests |-> <<>>]
    /\ filepath = [r \in Requests |-> NoPath]
    /\ files = [p \in Paths |-> NoFile]
    /\ ocr = [r \in Requests |-> [state |-> "idle", arg |-> NoPath, engine |-> NoOutcome,
                               result |-> NoResult]]
    /\ resp = [r \in Requests |-> NoResp]
    /\ log = [r \in Requests |-> <<>>]

----------------------------------------------------------------------------
(* Collaborators of the handler.                                           *)

\* The OCR call made in the coroutine itself: the event loop is held
\* until the call is over.
HoldsLoop_Blocking(q) == pc[q] = "awaiting_ocr" /\ ocr[q].state = "running"

\* An upload read in the coroutine itself: the event loop is held until
\* the next chunk is there.
HoldsLoop_Reading(q) == pc[q] = "reading"

\* Whether request q's coroutine occupies the event-loop thread while it
\* waits: for the next chunk in `await image.read()` (line 53), for its OCR
\* call in `await asyncio.to_thread()` (line 61).  The OCR call runs in a
\* worker thread and an awaiting coroutine is suspended, so it never does.
HoldsLoop(q) == FALSE

\* The event loop runs one coroutine at a time; a step of a request needs it.
LoopFree(r) == \A q \in Requests \ {r} : ~ HoldsLoop(q)

\* A facility that hands out names without looking at what exists.
FreshNames_Any(fs) == Paths

\* tempfile.NamedTemporaryFile (line 50) creates a file under a name that
\* no existing file has.
FreshNames(fs) == { p \in Paths : ~ fs[p].exists }

\* A write that puts the chunk in front of what is buffered.
Write_Prepend(b, c) == <<c>> \o b

\* tmp.write(content) (line 54): the chunk is appended to what tmp has
\* buffered.  The call is synchronous: it is not awaited.
Write(b, c) == Append(b, c)

\* tmp writes to the file it opened: the bytes show at tmp.name while that
\* name still holds the file the request created.
Linked(r, fs) ==
    /\ tmpname[r] # NoPath
    /\ fs[tmpname[r]].exists
    /\ fs[tmpname[r]].owner = r

\* Leaving the with block closes tmp, which writes out what is buffered.
Close(r, fs) ==
    IF Linked(r, fs)
    THEN [fs EXCEPT ![tmpname[r]].data = @ \o buf[r]]
    ELSE fs

\* A flush that writes nothing out.
Flush_Nothing(r, fs) == fs

\* tmp.flush() (line 57): the buffered bytes reach storage.
Flush(r, fs) ==
    IF Linked(r, fs)
    THEN [fs EXCEPT ![tmpname[r]].data = @ \o buf[r]]
    ELSE fs

\* Lines 63-72: the response the except clauses choose for the outcome of
\* the try block.
ExceptClauses(result) ==
    CASE result.raised = "none" -> Payload(result.text)
      [] result.raised = "RuntimeError" -> HTTPException(500, result.msg)
      [] result.raised = "CancelledError" -> Cancelled
      [] OTHER -> HTTPException(500, UnexpectedDetail)

\* A finally block that does not look whether the path exists.
ShouldRemove_Unchecked(fp, fs) == fp # NoPath

\* Line 78: the finally block removes the file when filepath is bound and
\* the path exists.
ShouldRemove(fp, fs) == fp # NoPath /\ fs[fp].exists

\* os.remove (line 79) deletes the file or raises OSError; it raises when
\* there is no file at the path.
RemoveOutcomes(fp, fs) ==
    IF fs[fp].exists THEN {"removed", "OSError"} ELSE {"OSError"}

\* An exception raised in the finally block replaces the pending outcome.
AfterFinally(primary, outcome) ==
    IF outcome = "OSError" THEN Unhandled("OSError") ELSE primary

Event(r, evs) == [log EXCEPT ![r] = @ \o evs]

\* Lines 63-81 once the try block has ended with `result`: the except
\* clauses, the finally block, and the response.  fs is storage after the
\* with block closed tmp; fp is the value of filepath.  The coroutine's
\* local variables (tmp, filepath) end with it.
Leave(r, result, fp, fs, evs) ==
    LET primary == ExceptClauses(result) IN
    /\ pc' = [pc EXCEPT ![r] = "done"]
    /\ tmpname' = [tmpname EXCEPT ![r] = NoPath]
    /\ filepath' = [filepath EXCEPT ![r] = NoPath]
    /\ IF ShouldRemove(fp, fs)
       THEN \E outcome \in RemoveOutcomes(fp, fs) :
              /\ files' = IF outcome = "removed"
                          THEN [fs EXCEPT ![fp] = NoFile]
                          ELSE fs
              /\ resp' = [resp EXCEPT ![r] = AfterFinally(primary, outcome)]
              /\ log' = Event(r, evs \o <<"finally",
                                  IF outcome = "removed" THEN "remove" ELSE "remove_failed",
                                  "respond">>)
       ELSE /\ files' = fs
            /\ resp' = [resp EXCEPT ![r] = primary]
            /\ log' = Event(r, evs \o <<"finally", "respond">>)

----------------------------------------------------------------------------
(* The steps of ocr_endpoint.                                              *)

\* Lines 44-45: the declared media type is rejected.
RejectUpload(r) ==
    /\ pc[r] = "received"
    /\ LoopFree(r)
    /\ \E ct \in ContentTypes :
         /\ ~ ValidContentType(ct)
         /\ ctype' = [ctype EXCEPT ![r] = ct]
    /\ pc' = [pc EXCEPT ![r] = "done"]
    /\ resp' = [resp EXCEPT ![r] = HTTPException(400, InvalidTypeDetail)]
    /\ log' = Event(r, <<"validate", "respond">>)
    /\ UNCHANGED <<sent, tmpname, buf, filepath, files, ocr>>

\* Lines 44-53: validation passes, the temporary file is created and the
\* coroutine suspends in the first image.read().
BeginUpload(r) ==
    /\ pc[r] = "received"
    /\ LoopFree(r)
    /\ \E ct \in ContentTypes :
         /\ ValidContentType(ct)
         /\ ctype' = [ctype EXCEPT ![r] = ct]
    /\ \E p \in FreshNames(files) :
         /\ tmpname' = [tmpname EXCEPT ![r] = p]
         /\ files' = [files EXCEPT ![p] = [exists |-> TRUE, owner |-> r, data |-> <<>>]]
    /\ pc' = [pc EXCEPT ![r] = "reading"]
    /\ log' = Event(r, <<"validate", "create">>)
    /\ UNCHANGED <<sent, buf, filepath, ocr, resp>>

\* Lines 44-50, 69-79: validation passes and NamedTemporaryFile raises.
CreateFails(r) ==
    /\ pc[r] = "received"
    /\ LoopFree(r)
    /\ \E ct \in ContentTypes :
         /\ ValidContentType(ct)
         /\ ctype' = [ctype EXCEPT ![r] = ct]
    /\ Leave(r, Raised("OSError", NoMsg), filepath[r], files, <<"validate", "error">>)
    /\ UNCHANGED <<sent, buf, ocr>>

\* Lines 53-54: image.read() returns a chunk, tmp.write() buffers it and the
\* coroutine suspends in the next image.read().
WriteChunk(r) ==
    /\ pc[r] = "reading"
    /\ LoopFree(r)
    /\ Len(sent[r]) < MaxChunks
    /\ LET c == Chunk(r, Len(sent[r]) + 1) IN
         /\ sent' = [sent EXCEPT ![r] = Append(@, c)]
         /\ buf' = [buf EXCEPT ![r] = Write(@, c)]
    /\ log' = Event(r, <<"write">>)
    /\ UNCHANGED <<pc, ctype, tmpname, filepath, files, ocr, resp>>

\* Lines 53-57, 69-79: image.read(), tmp.write() or tmp.flush() raises.  The
\* with block closes tmp; filepath is still unbound in the finally block.
PersistFails(r) ==
    /\ pc[r] = "reading"
    /\ LoopFree(r)
    /\ \E op \in {"read", "write", "flush"} :
         /\ op = "write" => Len(sent[r]) < MaxChunks
         /\ sent' = IF op = "write"
                    THEN [sent EXCEPT ![r] = Append(@, Chunk(r, Len(sent[r]) + 1))]
                    ELSE sent
         /\ Leave(r, Raised("OSError", NoMsg), filepath[r], Close(r, files), <<"error">>)
    /\ buf' = [buf EXCEPT ![r] = <<>>]
    /\ UNCHANGED <<ctype, ocr>>

\* Lines 53-61: image.read() returns b"", tmp is flushed, filepath is bound
\* and perform_ocr_sync is handed to a worker thread; the coroutine suspends.
StartOcr(r) ==
    /\ pc[r] = "reading"
    /\ LoopFree(r)
    /\ files' = Flush(r, files)
    /\ buf' = [buf EXCEPT ![r] = <<>>]
    /\ filepath' = [filepath EXCEPT ![r] = tmpname[r]]
    /\ ocr' = [ocr EXCEPT ![r] = [state |-> "running", arg |-> tmpname[r],
                                    engine |-> NoOutcome, result |-> NoResult]]
    /\ pc' = [pc EXCEPT ![r] = "awaiting_ocr"]
    /\ log' = Event(r, <<"flush", "ocr_start">>)
    /\ UNCHANGED <<ctype, sent, tmpname, resp>>

\* Lines 23-35, in the worker thread: the engine reads the file at the path
\* it was given and the call returns or raises.  The default executor has
\* min(32, cpu_count + 4) threads, more than there are requests here, so a
\* call never waits for a thread.
RunOcr(r) ==
    /\ ocr[r].state = "running"
    /\ \E out \in EngineOutcomes(ocr[r].arg, files) :
         ocr' = [ocr EXCEPT ![r] = [state |-> "finished", arg |-> NoPath, engine |-> out,
                                    result |-> perform_ocr_sync(out)]]
    /\ log' = Event(r, <<"ocr_end">>)
    /\ UNCHANGED <<pc, ctype, sent, tmpname, buf, filepath, files, resp>>

\* Lines 61-81: the awaited call has finished; the with block closes tmp,
\* the except clauses and the finally block run, the response is sent.
Finish(r) ==
    /\ pc[r] = "awaiting_ocr"
    /\ ocr[r].state = "finished"
    /\ LoopFree(r)
    /\ Leave(r, ocr[r].result, filepath[r], Close(r, files), <<>>)
    /\ UNCHANGED <<ctype, sent, buf, ocr>>

Step(r) ==
    \/ RejectUpload(r)
    \/ BeginUpload(r)
    \/ CreateFails(r)
    \/ WriteChunk(r)
    \/ PersistFails(r)
    \/ StartOcr(r)
    \/ RunOcr(r)
    \/ Finish(r)

Next == \E r \in Requests : Step(r)

Spec == Init /\ [][Next]_vars

----------------------------------------------------------------------------
(* The service when the task that runs a request can be cancelled (the     *)
(* server shuts down, or a middleware's cancel scope ends on a client      *)
(* disconnect).  CancelledError is raised at the await the coroutine is    *)
(* suspended in.  asyncio.to_thread does not stop the worker thread: the   *)
(* call of perform_ocr_sync goes on with the path it was given.            *)

\* Lines 53 or 61, 73-79: the task is cancelled while it awaits; the with
\* block closes tmp and the finally block runs.
Cancel(r) ==
    /\ pc[r] \in {"reading", "awaiting_ocr"}
    /\ LoopFree(r)
    /\ Leave(r, Raised("CancelledError", NoMsg), filepath[r], Close(r, files), <<"cancel">>)
    /\ buf' = [buf EXCEPT ![r] = <<>>]
    /\ UNCHANGED <<ctype, sent, ocr>>

NextCancel ==
    \/ \E r \in Requests : Step(r)
    \/ \E r \in Requests : Cancel(r)

SpecCancel == Init /\ [][NextCancel]_vars

----------------------------------------------------------------------------
(* The service on a storage that something else cleans too: line 78 asks   *)
(* whether the path still exists because a temporary file can be removed   *)
(* from outside (a cleaner of the temporary directory, an operator).  One  *)
(* request, any one, is served against the cleaner here: what the cleanup  *)
(* step of a request does with a vanished path is a matter of that request *)
(* alone.                                                                  *)

\* Something other than the service removes the file at path p.
ExternalRemove(p) ==
    /\ files[p].exists
    /\ files' = [files EXCEPT ![p] = NoFile]
    /\ UNCHANGED <<pc, ctype, sent, tmpname, buf, filepath, ocr, resp, log>>

\* No other request has been taken up.
Alone(r) == \A q \in Requests \ {r} : pc[q] = "received"

NextExt ==
    \/ \E r \in Requests : Alone(r) /\ Step(r)
    \/ \E p \in Paths : ExternalRemove(p)

SpecExt == Init /\ [][NextExt]_vars

----------------------------------------------------------------------------
(* Properties.                                                             *)

Has(r, ev) == \E i \in 1..Len(log[r]) : log[r][i] = ev
Count(r, ev) == Cardinality({ i \in 1..Len(log[r]) : log[r][i] = ev })
\* The files on storage that request r created.
OwnFiles(r) == { p \in Paths : files[p].exists /\ files[p].owner = r }
Started(r) == pc[r] # "received"
Done(r) == pc[r] = "done"
InFlight(r) == pc[r] \in {"reading", "awaiting_ocr"}

\* The media type is absent or does not start with "image/".
NotAnImage(ct) == ~ ct.present \/ ~ startswith(ct.value, ImagePrefix)

\* C1: a request whose declared media type is absent or does not start
\* with "image/" gets the 400 response with the invalid-file-type detail;
\* it never creates a temporary file and never invokes the OCR engine.
C1_InvalidTypeRejected ==
    \A r \in Requests :
        (Started(r) /\ NotAnImage(ctype[r])) =>
            /\ Done(r)
            /\ resp[r].status = 400
            /\ resp[r].kind = "HTTPException"
            /\ resp[r].detail.text = "Invalid file type. Please upload an image."
            /\ ~ Has(r, "create")
            /\ tmpname[r] = NoPath
            /\ OwnFiles(r) = {}
            /\ ~ Has(r, "ocr_start")
            /\ ocr[r].state = "idle"

\* C1 witness: a text/plain upload and an upload without a media type have
\* both been answered with 400.
C1_Witness ==
    \E r, s \in Requests :
        /\ Done(r) /\ ctype[r].present
        /\ ctype[r].value = <<"t", "e", "x", "t", "/", "p", "l", "a", "i", "n">>
        /\ resp[r].status = 400
        /\ Done(s) /\ ~ ctype[s].present
        /\ resp[s].status = 400

\* The try block got past every chunk and the engine returned a text.
OcrReturnedText(r) == ocr[r].state = "finished" /\ ocr[r].engine.kind = "return"

\* C2: an upload that passes validation, is written in full and for which
\* OCR returns text creates exactly one temporary file, deletes it exactly
\* once, leaves no temporary file behind when the response is returned, and
\* is answered 200 with the OCR text under raw_text_from_img.
C2_SuccessfulUpload ==
    \A r \in Requests :
        (Done(r) /\ ~ NotAnImage(ctype[r]) /\ OcrReturnedText(r)) =>
            /\ Count(r, "create") = 1
            /\ Count(r, "remove") = 1
            /\ OwnFiles(r) = {}
            /\ resp[r].status = 200
            /\ resp[r].kind = "payload"
            /\ resp[r].raw_text = ocr[r].engine.text

\* What is left of C2 when os.remove does not raise: it then holds.
C2_WhenRemoveSucceeds ==
    \A r \in Requests :
        (Done(r) /\ ~ NotAnImage(ctype[r]) /\ OcrReturnedText(r)
                 /\ ~ Has(r, "remove_failed")) =>
            /\ Count(r, "create") = 1
            /\ Count(r, "remove") = 1
            /\ OwnFiles(r) = {}
            /\ resp[r] = Payload(Recognize(sent[r]))

\* C3: an I/O error while reading or writing a chunk, after the temporary
\* file was created and before OCR starts, ends the request with a 500
\* response and leaves no temporary file of the request on storage.
C3_PersistErrorCleansUp ==
    \A r \in Requests :
        (Done(r) /\ Has(r, "create") /\ Has(r, "error")) =>
            /\ resp[r].status = 500
            /\ OwnFiles(r) = {}

\* C4: when the engine is unavailable the request ends with a 500 response
\* whose detail is the fixed configuration-error string, with no file path
\* and no text of the underlying exception in it, and the temporary file is
\* gone when the response is sent.
C4_EngineUnavailable ==
    \A r \in Requests :
        (Done(r) /\ ocr[r].engine.kind = "TesseractNotFoundError") =>
            /\ resp[r].status = 500
            /\ resp[r].detail.text = "Tesseract OCR engine is not configured correctly."
            /\ resp[r].detail.paths = {}
            /\ resp[r].detail.embeds = {}
            /\ OwnFiles(r) = {}

\* What is left of C4 when os.remove does not raise: it then holds.
C4_WhenRemoveSucceeds ==
    \A r \in Requests :
        (Done(r) /\ ocr[r].engine.kind = "TesseractNotFoundError"
                 /\ ~ Has(r, "remove_failed")) =>
            /\ resp[r] = HTTPException(500, Msg(NotConfiguredText, {}, {}))
            /\ OwnFiles(r) = {}

\* C5: when a failure response is sent for a request, every temporary file
\* the request created has been removed.
C5_FailureAfterCleanup ==
    \A r \in Requests :
        (Has(r, "respond") /\ resp[r].status >= 400) => OwnFiles(r) = {}

\* C6: when deleting the temporary file raises, the client still gets the
\* request's primary outcome: the 200 text payload if OCR returned a text,
\* the 500 response of the OCR error if one was raised.
C6_CleanupFailureKeepsOutcome ==
    \A r \in Requests :
        (Done(r) /\ Has(r, "remove_failed")) =>
            /\ ocr[r].result.raised = "none" =>
                 /\ resp[r].status = 200
                 /\ resp[r].raw_text = ocr[r].result.text
            /\ ocr[r].result.raised = "RuntimeError" =>
                 /\ resp[r].status = 500
                 /\ resp[r].kind = "HTTPException"
                 /\ resp[r].detail = ocr[r].result.msg

\* C7: requests in flight hold different temporary files; the file of a
\* request in flight exists and holds nothing but a prefix of that
\* request's own chunks (nobody else wrote to it or deleted it); a text sent
\* in a response is the text recognized from that request's own upload.
C7_RequestsIsolated ==
    /\ \A r, s \in Requests :
         (r # s /\ InFlight(r) /\ InFlight(s)) => tmpname[r] # tmpname[s]
    /\ \A r \in Requests :
         InFlight(r) =>
            /\ files[tmpname[r]].exists
            /\ files[tmpname[r]].owner = r
            /\ files[tmpname[r]].data \o buf[r] = sent[r]
    /\ \A r \in Requests :
         resp[r].status = 200 => resp[r].raw_text = Recognize(sent[r])

\* C7 witness: two requests wait at the same time for the OCR of their own
\* two-chunk uploads, and each call has returned a text of its own.
C7_Witness ==
    \E r, s \in Requests :
        /\ r # s
        /\ pc[r] = "awaiting_ocr" /\ pc[s] = "awaiting_ocr"
        /\ Len(sent[r]) = 2 /\ Len(sent[s]) = 2
        /\ OcrReturnedText(r) /\ OcrReturnedText(s)
        /\ ocr[r].result.text # ocr[s].result.text

\* The steps that take request s forward from where it is.
NextStepsEnabled(s) ==
    /\ pc[s] = "received" =>
         /\ ENABLED RejectUpload(s)
         /\ FreshNames(files) # {} => ENABLED BeginUpload(s)
    /\ pc[s] = "reading" =>
         /\ Len(sent[s]) < MaxChunks => ENABLED WriteChunk(s)
         /\ ENABLED StartOcr(s)
    /\ (pc[s] = "awaiting_ocr" /\ ocr[s].state = "running") => ENABLED RunOcr(s)
    /\ (pc[s] = "awaiting_ocr" /\ ocr[s].state = "finished") => ENABLED Finish(s)

\* C8: while a request waits for an OCR call that has not returned, every
\* other request can take its next step.
C8_OcrDoesNotBlockOthers ==
    \A r, s \in Requests :
        (r # s /\ pc[r] = "awaiting_ocr" /\ ocr[r].state = "running") =>
            NextStepsEnabled(s)

\* C8 witness: one request waits for an OCR call that has not returned
\* while another is in the middle of its upload.
C8_Witness ==
    \E r, s \in Requests :
        /\ r # s
        /\ pc[r] = "awaiting_ocr" /\ ocr[r].state = "running"
        /\ pc[s] = "reading" /\ Len(sent[s]) = 1

\* Position of a step in the order validate, persist, flush, recognize,
\* cleanup, respond.
RankOf ==
    [validate |-> 1, create |-> 2, write |-> 3, flush |-> 4, ocr_start |-> 5,
     ocr_end |-> 6, error |-> 6, finally |-> 7, remove |-> 8, remove_failed |-> 8,
     respond |-> 9]
Rank(ev) == RankOf[ev]

C10_OneStructuredResponse ==
    \A r \in Requests :
        /\ Count(r, "respond") = (IF Done(r) THEN 1 ELSE 0)
        /\ Done(r) =>
             \/ resp[r].kind = "payload" /\ resp[r].status = 200
             \/ /\ resp[r].kind = "HTTPException"
                /\ resp[r].status \in {400, 500}
                /\ resp[r].detail.text # ""

\* C11: the detail of a 500 response sent for a storage or OCR failure is a
\* safe summary: it spells out no temporary file path and carries no text
\* of the underlying exception.
C11_SafeErrorDetail ==
    \A r \in Requests :
        (Done(r) /\ resp[r].status = 500 /\ resp[r].kind = "HTTPException") =>
            /\ resp[r].detail.paths = {}
            /\ resp[r].detail.embeds = {}

\* What holds of the details: only the detail of an engine failure other
\* than a missing engine carries exception text, and with it a path.
C11_OnlyProcessingErrorLeaks ==
    \A r \in Requests :
        (Done(r) /\ resp[r].status = 500 /\ resp[r].kind = "HTTPException"
                 /\ ocr[r].engine.kind # "Exception") =>
            /\ resp[r].detail.paths = {}
            /\ resp[r].detail.embeds = {}

\* C12: when the path of the temporary file no longer exists as the cleanup
\* step runs, or the file was never fully created (filepath is unbound),
\* the cleanup raises nothing and the response is the one the request has
\* to give: the 200 payload of the returned text, or its primary error.
C12_CleanupIdempotent ==
    [][\A r \in Requests :
         /\ (pc[r] = "awaiting_ocr" /\ pc'[r] = "done" /\ ~ files[filepath[r]].exists) =>
              /\ ocr[r].result.raised = "none" =>
                   resp'[r] = Payload(ocr[r].result.text)
              /\ ocr[r].result.raised = "RuntimeError" =>
                   resp'[r] = HTTPException(500, ocr[r].result.msg)
              /\ files' = files
         /\ (pc[r] = "reading" /\ pc'[r] = "done") =>
              /\ resp'[r].kind = "HTTPException"
              /\ resp'[r].status = 500
      ]_vars

\* C12 witness: the file was removed from outside after OCR returned a
\* text; the cleanup step found no path to remove and the 200 was sent.
C12_Witness ==
    \E r \in Requests :
        /\ Done(r)
        /\ Has(r, "ocr_end") /\ ~ Has(r, "remove") /\ ~ Has(r, "remove_failed")
        /\ resp[r].status = 200
        /\ Len(resp[r].raw_text) = 1

\* The bytes request r has written to its temporary file: what storage
\* holds at tmp.name followed by what tmp has buffered.
Written(r) == files[tmpname[r]].data \o buf[r]

\* C13: the temporary file is never referenced after deletion: while the
\* OCR call of a request runs in the worker thread, cancelled request or
\* not, the file at the path the call was given exists and is the file the
\* request created.
C13_NeverReferencedAfterDeletion ==
    \A r \in Requests :
        ocr[r].state = "running" =>
            /\ files[ocr[r].arg].exists
            /\ files[ocr[r].arg].owner = r

OcrReturnedEmpty(r) ==
    /\ ~ NotAnImage(ctype[r])
    /\ OcrReturnedText(r)
    /\ ocr[r].engine.text = <<>>

\* C15: an empty OCR result is not an error: when the engine returns the
\* empty string for a valid upload, the request completes with the 200
\* payload whose raw_text_from_img is empty and its temporary file is gone.
C15_EmptyResultIsSuccess ==
    \A r \in Requests :
        (Done(r) /\ OcrReturnedEmpty(r)) =>
            /\ resp[r] = Payload(<<>>)
            /\ OwnFiles(r) = {}

\* What holds of an empty result: it is answered as C15 says whenever
\* os.remove does not raise (C6).
C15_WhenRemoveSucceeds ==
    \A r \in Requests :
        (Done(r) /\ OcrReturnedEmpty(r) /\ ~ Has(r, "remove_failed")) =>
            /\ resp[r] = Payload(<<>>)
            /\ OwnFiles(r) = {}

\* C16 as stated: reading a chunk and writing it are two suspension points,
\* so the step in which a request takes a chunk from the stream ends before
\* the chunk is written: no step both reads a chunk and changes what the
\* request has written.
C16_ReadAndWriteSuspend ==
    [][\A r \in Requests : sent'[r] # sent[r] => buf'[r] = buf[r]]_vars

\* C16 amended: only the chunk read suspends.  Whenever a request is
\* suspended in its upload loop every chunk it has read is written (nothing
\* runs between reading a chunk and writing it), and the next steps of
\* every other request can be taken (between writing a chunk and reading
\* the next one).
C16_OnlyReadSuspends ==
    \A r \in Requests :
        pc[r] = "reading" =>
            /\ Written(r) = sent[r]
            /\ \A s \in Requests \ {r} : NextStepsEnabled(s)

\* C16 witness: two requests are each between their first chunk and their
\* next read.
C16_Witness ==
    \E r, s \in Requests :
        /\ r # s
        /\ pc[r] = "reading" /\ Len(sent[r]) = 1 /\ buf[r] # <<>>
        /\ pc[s] = "reading" /\ Len(sent[s]) = 1 /\ buf[s] # <<>>

====
